---------------------------- MODULE Spec2Model ----------------------------
(***************************************************************************)
(* Model of glikoz.dataframe_handler.DiaguardCSVParser: the line-by-line   *)
(* parse of a Diaguard CSV backup into the entry DataFrame (Spec,          *)
(* SpecNumeric), and of DataFrameHandler with the ReportCreator that       *)
(* drives it: the filtered view of an entry DataFrame (SpecHandler).       *)
(*                                                                         *)
(* Conventions                                                             *)
(*  - csv_lines is the list built by __init__: one (field, values) pair    *)
(*    per physical line, values being strings.                             *)
(*  - cursors are 0-based as in the code; LineAt(k) is csv_lines[k].       *)
(*  - float() is a lookup of the decimal literal, the result is kept in    *)
(*    tenths (95.7 is 957); int(float()) drops the fractional part.        *)
(*  - carbohydrate amounts are kept in 1/10000 g (tenths times tenths      *)
(*    divided by 100).                                                     *)
(*  - an optional value (None or a number) is a sequence of length 0 or 1. *)
(*  - pandas timestamps are hours since 2024-01-01 00:00; NaT is the null  *)
(*    timestamp.                                                           *)
(*  - a DataFrame object is named "entry_df" (the one given to the        *)
(*    handler) or "view" (any DataFrame made later); frames maps the names *)
(*    to rows, so that two references to one object can be told from two   *)
(*    equal objects.                                                       *)
(***************************************************************************)
EXTENDS Integers, Sequences, FiniteSets, TLC

VARIABLES
    csv_lines,  \* self.csv_lines
    foods,      \* self.foods
    entries,    \* self.entries
    i,          \* cursor of process_lines
    pc,         \* "process_lines", "process_entry", "returned", "raised"
    si,         \* cursor i of process_entry
    local,      \* locals of process_entry (date, comments, glucose, ...)
    df,         \* self.df as returned by parse_csv
    exc,        \* the exception that left parse_csv
    log,        \* history: what was done with each line, in order
    frames,         \* the DataFrame objects: object name -> rows
    df_handler,     \* the DataFrameHandler: its references original_df, df
    report_as_dict, \* ReportCreator.report_as_dict
    given,          \* history: the rows of entry_df at construction
    last            \* history: the last operation, its arguments and the
                    \* rows of the view before it

\* the variables of the parser
pvars == <<csv_lines, foods, entries, i, pc, si, local, df, exc, log>>

\* the variables of the handler and of the report creator
hvars == <<frames, df_handler, report_as_dict, given, last>>

vars == <<csv_lines, foods, entries, i, pc, si, local, df, exc, log,
          frames, df_handler, report_as_dict, given, last>>

---------------------------------------------------------------------------
(* Bounds *)

MaxLines == 4

---------------------------------------------------------------------------
(* Literals of the backup format and their conversions *)

\* float(s) in tenths, for the decimal literals that occur in the inputs
FloatOf ==
    ("14" :> 140) @@ ("200" :> 2000) @@ ("95.7" :> 957) @@ ("2.0" :> 20)
    @@ ("1.0" :> 10) @@ ("10.0" :> 100) @@ ("23" :> 230)
    @@ ("20" :> 200) @@ ("-2.7" :> -27) @@ ("30.5" :> 305) @@ ("-5.0" :> -50)

IsFloat(s) == s \in DOMAIN FloatOf

\* variant: int() replaced by a floor (math.floor, or //)
IntOfFloatFloor(t) == t \div 10

\* int(x) of a float kept in tenths: truncation toward zero
IntOfFloat(t) == IF t >= 0 THEN t \div 10 ELSE -((-t) \div 10)

\* str.lower()
LowerOf == ("Apple" :> "apple")

Lower(s) == IF s \in DOMAIN LowerOf THEN LowerOf[s] ELSE s

\* pandas null timestamp
NaT == -1

\* strings pandas.to_datetime reads as the null timestamp
NaTStrings == {"", "NaT", "nan"}

\* pandas.to_datetime of the date literals that occur in the inputs
DateOf == ("2024-01-01 08:00" :> 8) @@ ("2024-01-02 09:00" :> 33)

IsDate(s) == s \in DOMAIN DateOf \/ s \in NaTStrings

ToDatetime(s) == IF s \in NaTStrings THEN NaT ELSE DateOf[s]

---------------------------------------------------------------------------
(* Lines *)

Line(field, values) == [field |-> field, values |-> values]

LineAt(k) == csv_lines[k + 1]

NLines == Len(csv_lines)

\* variant: the scan also consumes an `entry` line (as its last branch)
SubRecordFieldsWithEntry == {"measurement", "foodEaten", "entryTag", "entry"}

\* the record types the scan of process_entry consumes
SubRecordFields == {"measurement", "foodEaten", "entryTag"}

\* the lines the inputs are made of
Vocabulary ==
    { Line("food", <<"apple", "", "apple", "14">>),
      Line("entry", <<"2024-01-01 08:00", "">>),
      Line("entry", <<"2024-01-02 09:00", "note">>),
      Line("entry", <<"", "">>),
      Line("entry", <<"date_formatted", "">>),
      Line("measurement", <<"bloodsugar", "95.7">>),
      Line("measurement", <<"insulin", "2.0", "1.0", "10.0">>),
      Line("measurement", <<"insulin", "2.0", "1.0">>),
      Line("foodEaten", <<"Apple", "200">>),
      Line("entryTag", <<"tag1">>),
      Line("meta", <<"23">>) }

\* the lines of the inputs with repeated foods and signed decimal fields
NumericVocabulary ==
    { Line("food", <<"apple", "", "apple", "14">>),
      Line("food", <<"Apple", "", "Apple", "20">>),
      Line("entry", <<"2024-01-01 08:00", "">>),
      Line("measurement", <<"bloodsugar", "95.7">>),
      Line("measurement", <<"bloodsugar", "-2.7">>),
      Line("measurement", <<"insulin", "-2.7", "1.0", "10.0">>),
      Line("measurement", <<"activity", "30.5">>),
      Line("measurement", <<"meal", "-5.0">>),
      Line("foodEaten", <<"apple", "200">>) }

RECURSIVE SeqsUpTo(_, _)
SeqsUpTo(S, n) ==
    IF n = 0 THEN {<<>>}
    ELSE LET shorter == SeqsUpTo(S, n - 1)
         IN  shorter \cup
             {Append(s, x) : s \in {t \in shorter : Len(t) = n - 1}, x \in S}

---------------------------------------------------------------------------
(* Exceptions *)

NoPosition == -1

NoExc == [type |-> "", arg |-> "", position |-> NoPosition]

\* a Python exception as the code raises it: its type and its argument;
\* no raise of the parser attaches the position of the offending line
Raise(type, arg) == [type |-> type, arg |-> arg, position |-> NoPosition]

---------------------------------------------------------------------------
(* process_food *)

NoFoods == [n \in {} |-> 0]

DictSet(d, key, value) ==
    [k \in DOMAIN d \cup {key} |-> IF k = key THEN value ELSE d[k]]

\* the exception process_food raises on food_info, NoExc if none
ProcessFoodExc(food_info) ==
    IF Len(food_info) = 0 THEN Raise("IndexError", "list index out of range")
    ELSE IF ~IsFloat(food_info[Len(food_info)])
         THEN Raise("ValueError", food_info[Len(food_info)])
         ELSE NoExc

ProcessFoodDict(fd, food_info) ==
    DictSet(fd, Lower(food_info[1]), FloatOf[food_info[Len(food_info)]])

---------------------------------------------------------------------------
(* process_entry *)

NoLocal ==
    [date |-> "", comments |-> "", glucose |-> <<>>, activity |-> 0,
     hba1c |-> <<>>, insulin |-> <<0, 0, 0>>, meal |-> NoFoods, tags |-> <<>>]

\* variant: glucose starts at 0 like activity, not at None
EntryLocalsGlucoseZero(content) ==
    [date |-> content[1], comments |-> content[2], glucose |-> <<0>>,
     activity |-> 0, hba1c |-> <<>>, insulin |-> <<0, 0, 0>>,
     meal |-> NoFoods, tags |-> <<>>]

\* the locals of process_entry before its loop
EntryLocals(content) ==
    [date |-> content[1], comments |-> content[2], glucose |-> <<>>,
     activity |-> 0, hba1c |-> <<>>, insulin |-> <<0, 0, 0>>,
     meal |-> NoFoods, tags |-> <<>>]

\* values[1:4] of the insulin line
InsulinFields(values) == SubSeq(values, 2, IF Len(values) < 4 THEN Len(values) ELSE 4)

\* the exception one pass of the loop body raises on a consumed line
ScanExc(fd, ln) ==
    LET values == ln.values
        category == values[1]
        NeedsFloat(k) ==
            IF Len(values) < k THEN Raise("IndexError", "list index out of range")
            ELSE IF ~IsFloat(values[k]) THEN Raise("ValueError", values[k])
            ELSE NoExc
    IN  IF Len(values) = 0 THEN Raise("IndexError", "list index out of range")
        ELSE IF ln.field = "measurement" THEN
            IF category \in {"bloodsugar", "meal", "activity", "hba1c"}
            THEN NeedsFloat(2)
            ELSE IF category = "insulin" THEN
                IF \E k \in 1..Len(InsulinFields(values)) :
                       ~IsFloat(InsulinFields(values)[k])
                THEN Raise("ValueError", "insulin")
                ELSE NoExc
            ELSE NoExc
        ELSE IF ln.field = "foodEaten" THEN
            IF NeedsFloat(2) # NoExc THEN NeedsFloat(2)
            ELSE IF Lower(values[1]) \notin DOMAIN fd
                 THEN Raise("KeyError", Lower(values[1]))
                 ELSE NoExc
        ELSE NoExc

\* variant: a food eaten again is added to the meal (meal[food_eaten] += ...)
ScanApplyAccumulating(fd, loc, ln) ==
    LET values == ln.values
        category == values[1]
        food_eaten == Lower(values[1])
    IN  IF ln.field = "measurement" THEN
            IF category = "bloodsugar"
            THEN [loc EXCEPT !.glucose = <<IntOfFloat(FloatOf[values[2]])>>]
            ELSE IF category = "insulin"
            THEN [loc EXCEPT !.insulin =
                     [k \in 1..Len(InsulinFields(values)) |->
                         IntOfFloat(FloatOf[InsulinFields(values)[k]])]]
            ELSE IF category = "meal"
            THEN [loc EXCEPT !.meal =
                     DictSet(loc.meal, "carbs", FloatOf[values[2]] * 1000)]
            ELSE IF category = "activity"
            THEN [loc EXCEPT !.activity = IntOfFloat(FloatOf[values[2]])]
            ELSE IF category = "hba1c"
            THEN [loc EXCEPT !.hba1c = <<FloatOf[values[2]]>>]
            ELSE loc
        ELSE IF ln.field = "foodEaten" THEN
            [loc EXCEPT !.meal =
                DictSet(loc.meal, food_eaten,
                        (IF food_eaten \in DOMAIN loc.meal
                         THEN loc.meal[food_eaten] ELSE 0)
                        + FloatOf[values[2]] * fd[food_eaten])]
        ELSE \* entryTag
            [loc EXCEPT !.tags = Append(loc.tags, values[1])]

\* the locals after one pass of the loop body on a consumed line
ScanApply(fd, loc, ln) ==
    LET values == ln.values
        category == values[1]
    IN  IF ln.field = "measurement" THEN
            IF category = "bloodsugar"
            THEN [loc EXCEPT !.glucose = <<IntOfFloat(FloatOf[values[2]])>>]
            ELSE IF category = "insulin"
            THEN [loc EXCEPT !.insulin =
                     [k \in 1..Len(InsulinFields(values)) |->
                         IntOfFloat(FloatOf[InsulinFields(values)[k]])]]
            ELSE IF category = "meal"
            THEN [loc EXCEPT !.meal =
                     DictSet(loc.meal, "carbs", FloatOf[values[2]] * 1000)]
            ELSE IF category = "activity"
            THEN [loc EXCEPT !.activity = IntOfFloat(FloatOf[values[2]])]
            ELSE IF category = "hba1c"
            THEN [loc EXCEPT !.hba1c = <<FloatOf[values[2]]>>]
            ELSE loc
        ELSE IF ln.field = "foodEaten" THEN
            [loc EXCEPT !.meal =
                DictSet(loc.meal, Lower(values[1]),
                        FloatOf[values[2]] * fd[Lower(values[1])])]
        ELSE \* entryTag
            [loc EXCEPT !.tags = Append(loc.tags, values[1])]

\* the dictionary process_entry appends to self.entries
EntryDict(loc) ==
    [date |-> loc.date, glucose |-> loc.glucose,
     bolus_insulin |-> loc.insulin[1],
     correction_insulin |-> loc.insulin[2],
     basal_insulin |-> loc.insulin[3],
     activity |-> loc.activity, hba1c |-> loc.hba1c, meal |-> loc.meal,
     tags |-> loc.tags, comments |-> loc.comments]

---------------------------------------------------------------------------
(* init_df *)

EntryKeys ==
    {"date", "glucose", "bolus_insulin", "correction_insulin",
     "basal_insulin", "activity", "hba1c", "meal", "tags", "comments"}

NoDf == [columns |-> {}, rows |-> <<>>]

\* the column labels of pd.DataFrame(entries): the keys of the dictionaries
FrameColumns(es) == IF Len(es) = 0 THEN {} ELSE EntryKeys

RECURSIVE SumValues(_)
SumValues(m) ==
    IF DOMAIN m = {} THEN 0
    ELSE LET k == CHOOSE x \in DOMAIN m : TRUE
         IN  m[k] + SumValues([x \in DOMAIN m \ {k} |-> m[x]])

\* variant: total_insulin leaves the correction dose out
DerivedRowTotalWithoutCorrection(e) ==
    [date |-> ToDatetime(e.date), glucose |-> e.glucose,
     bolus_insulin |-> e.bolus_insulin,
     correction_insulin |-> e.correction_insulin,
     basal_insulin |-> e.basal_insulin,
     activity |-> e.activity, hba1c |-> e.hba1c, meal |-> e.meal,
     tags |-> e.tags, comments |-> e.comments,
     fast_insulin |-> e.bolus_insulin + e.correction_insulin,
     total_insulin |-> e.bolus_insulin + e.basal_insulin,
     carbs |-> SumValues(e.meal)]

\* one row of the DataFrame with the converted date and the derived columns
DerivedRow(e) ==
    [date |-> ToDatetime(e.date), glucose |-> e.glucose,
     bolus_insulin |-> e.bolus_insulin,
     correction_insulin |-> e.correction_insulin,
     basal_insulin |-> e.basal_insulin,
     activity |-> e.activity, hba1c |-> e.hba1c, meal |-> e.meal,
     tags |-> e.tags, comments |-> e.comments,
     fast_insulin |-> e.bolus_insulin + e.correction_insulin,
     total_insulin |-> (e.bolus_insulin + e.correction_insulin)
                        + e.basal_insulin,
     carbs |-> SumValues(e.meal)]

\* sort_values(by="date", ascending=True): a null date is placed last
DateBefore(a, b) == a # NaT /\ (b = NaT \/ a < b)

\* variant: the rows are left in the order of the file
SortOrdersUnsorted(rows) == {[k \in 1..Len(rows) |-> k]}

\* the orders sort_values may leave n rows in (rows with equal dates in any
\* order: the default sort is not stable)
SortOrders(rows) ==
    LET n == Len(rows)
    IN  { p \in [1..n -> 1..n] :
            /\ \A a, b \in 1..n : a # b => p[a] # p[b]
            /\ \A a, b \in 1..n :
                   a < b => ~DateBefore(rows[p[b]].date, rows[p[a]].date) }

SortValues(rows, p) == [k \in 1..Len(rows) |-> rows[p[k]]]

\* the exception init_df raises on self.entries, NoExc if none
InitDfExc(es) ==
    IF "date" \notin FrameColumns(es) THEN Raise("KeyError", "date")
    ELSE IF \E k \in 1..Len(es) : ~IsDate(es[k].date)
         THEN Raise("ValueError", "date")
         ELSE NoExc

\* the frames init_df may leave in self.df
InitDfFrames(es) ==
    LET rows == [k \in 1..Len(es) |-> DerivedRow(es[k])]
    IN  { [columns |-> FrameColumns(es)
                       \cup {"fast_insulin", "total_insulin", "carbs"},
           rows |-> SortValues(rows, p)] : p \in SortOrders(rows) }

---------------------------------------------------------------------------
(* The parse as a state machine *)

\* the record of an operation: its name, its arguments, the rows of the view
\* before it, the groups it returned, the report before a rendering and the
\* exception it raised
NoOp ==
    [op |-> "", column |-> "", lo |-> 0, hi |-> 0, x |-> 0, flag |-> FALSE,
     tags |-> <<>>, before |-> <<>>, groups |-> <<>>, report |-> <<>>,
     raised |-> NoExc]

\* no DataFrameHandler is constructed while the parser runs
NoHandler ==
    /\ frames = <<>>
    /\ df_handler = [original_df |-> "None", df |-> "None"]
    /\ report_as_dict = <<>>
    /\ given = <<>>
    /\ last = NoOp

Logged(how, owner) == Append(log, [line |-> Len(log), how |-> how, owner |-> owner])

Init ==
    /\ csv_lines \in SeqsUpTo(Vocabulary, MaxLines)
    /\ foods = NoFoods
    /\ entries = <<>>
    /\ i = 0
    /\ pc = "process_lines"
    /\ si = 0
    /\ local = NoLocal
    /\ df = NoDf
    /\ exc = NoExc
    /\ log = <<>>
    /\ NoHandler

\* process_lines, name == "food"
FoodLine ==
    /\ pc = "process_lines"
    /\ i < NLines
    /\ LineAt(i).field = "food"
    /\ IF ProcessFoodExc(LineAt(i).values) # NoExc
       THEN /\ pc' = "raised"
            /\ exc' = ProcessFoodExc(LineAt(i).values)
            /\ UNCHANGED <<foods, i, log>>
       ELSE /\ foods' = ProcessFoodDict(foods, LineAt(i).values)
            /\ i' = i + 1
            /\ log' = Logged("food", i)
            /\ UNCHANGED <<pc, exc>>
    /\ UNCHANGED <<csv_lines, entries, si, local, df>>
    /\ UNCHANGED hvars

\* process_lines, name == "entry": the call of process_entry up to its loop
EntryLine ==
    /\ pc = "process_lines"
    /\ i < NLines
    /\ LineAt(i).field = "entry"
    /\ IF Len(LineAt(i).values) < 2
       THEN /\ pc' = "raised"
            /\ exc' = Raise("ValueError", "not enough values to unpack")
            /\ UNCHANGED <<si, local, log>>
       ELSE /\ pc' = "process_entry"
            /\ si' = i + 1
            /\ local' = EntryLocals(LineAt(i).values)
            /\ log' = Logged("entry", i)
            /\ UNCHANGED exc
    /\ UNCHANGED <<csv_lines, foods, entries, i, df>>
    /\ UNCHANGED hvars

\* variant: a sub-record line met outside an entry is an error
OtherLineStrict ==
    /\ pc = "process_lines"
    /\ i < NLines
    /\ LineAt(i).field \notin {"food", "entry"}
    /\ IF LineAt(i).field \in SubRecordFields
       THEN /\ pc' = "raised"
            /\ exc' = Raise("ValueError", LineAt(i).field)
            /\ UNCHANGED <<i, log>>
       ELSE /\ i' = i + 1
            /\ log' = Logged("skip", i)
            /\ UNCHANGED <<pc, exc>>
    /\ UNCHANGED <<csv_lines, foods, entries, si, local, df>>
    /\ UNCHANGED hvars

\* process_lines, any other name
OtherLine ==
    /\ pc = "process_lines"
    /\ i < NLines
    /\ LineAt(i).field \notin {"food", "entry"}
    /\ i' = i + 1
    /\ log' = Logged("skip", i)
    /\ UNCHANGED <<csv_lines, foods, entries, pc, si, local, df, exc>>
    /\ UNCHANGED hvars

\* one pass of the loop of process_entry that consumes a line
ScanLine ==
    /\ pc = "process_entry"
    /\ si < NLines
    /\ LineAt(si).field \in SubRecordFields
    /\ IF ScanExc(foods, LineAt(si)) # NoExc
       THEN /\ pc' = "raised"
            /\ exc' = ScanExc(foods, LineAt(si))
            /\ UNCHANGED <<si, local, log>>
       ELSE /\ local' = ScanApply(foods, local, LineAt(si))
            /\ si' = si + 1
            /\ log' = Logged("sub", i)
            /\ UNCHANGED <<pc, exc>>
    /\ UNCHANGED <<csv_lines, foods, entries, i, df>>
    /\ UNCHANGED hvars

\* variant: the line that stopped the scan is consumed
ReturnedCursorPastStop(k) == k + 1

\* variant: the cursor returned is the last line consumed
ReturnedCursorBeforeStop(k) == k - 1

\* the cursor process_entry returns to process_lines
ReturnedCursor(k) == k

\* the end of the loop of process_entry: append the entry, return the cursor
EndEntry ==
    /\ pc = "process_entry"
    /\ (IF si < NLines THEN LineAt(si).field \notin SubRecordFields ELSE TRUE)
    /\ IF Len(local.insulin) < 3
       THEN /\ pc' = "raised"
            /\ exc' = Raise("IndexError", "tuple index out of range")
            /\ UNCHANGED <<entries, i, si, local>>
       ELSE /\ entries' = Append(entries, EntryDict(local))
            /\ i' = ReturnedCursor(si)
            /\ pc' = "process_lines"
            /\ si' = 0
            /\ local' = NoLocal
            /\ UNCHANGED exc
    /\ UNCHANGED <<csv_lines, foods, df, log>>
    /\ UNCHANGED hvars

\* parse_csv after process_lines: init_df and return
InitDf ==
    /\ pc = "process_lines"
    /\ i >= NLines
    /\ IF InitDfExc(entries) # NoExc
       THEN /\ pc' = "raised"
            /\ exc' = InitDfExc(entries)
            /\ UNCHANGED df
       ELSE /\ pc' = "returned"
            /\ df' \in InitDfFrames(entries)
            /\ UNCHANGED exc
    /\ UNCHANGED <<csv_lines, foods, entries, i, si, local, log>>
    /\ UNCHANGED hvars

Next ==
    \/ FoodLine
    \/ EntryLine
    \/ OtherLine
    \/ ScanLine
    \/ EndEntry
    \/ InitDf

Spec == Init /\ [][Next]_vars

\* the parser on the inputs made of NumericVocabulary
InitNumeric ==
    /\ csv_lines \in SeqsUpTo(NumericVocabulary, MaxLines)
    /\ foods = NoFoods
    /\ entries = <<>>
    /\ i = 0
    /\ pc = "process_lines"
    /\ si = 0
    /\ local = NoLocal
    /\ df = NoDf
    /\ exc = NoExc
    /\ log = <<>>
    /\ NoHandler

SpecNumeric == InitNumeric /\ [][Next]_vars

\* the sub-record lines of the entries with repeated sub-records: two of
\* each kind that is assigned, the entryTag line and a line that stops a scan
RepeatedVocabulary ==
    { Line("measurement", <<"bloodsugar", "95.7">>),
      Line("measurement", <<"bloodsugar", "23">>),
      Line("measurement", <<"insulin", "2.0", "1.0", "10.0">>),
      Line("measurement", <<"insulin", "1.0", "2.0", "10.0">>),
      Line("measurement", <<"activity", "30.5">>),
      Line("measurement", <<"activity", "20">>),
      Line("measurement", <<"hba1c", "10.0">>),
      Line("measurement", <<"hba1c", "2.0">>),
      Line("measurement", <<"meal", "10.0">>),
      Line("measurement", <<"meal", "2.0">>),
      Line("foodEaten", <<"Apple", "200">>),
      Line("foodEaten", <<"apple", "20">>),
      Line("entryTag", <<"tag1">>),
      Line("meta", <<"23">>) }

\* the lines of RepeatedVocabulary of one kind, with the entryTag line and
\* the line that stops a scan
OfKind(kind) ==
    {ln \in RepeatedVocabulary :
        \/ ln.field \in {kind, "entryTag", "meta"}
        \/ ln.field = "measurement" /\ ln.values[1] = kind}

Kinds == {"bloodsugar", "insulin", "activity", "hba1c", "meal", "foodEaten"}

MaxRepeats == 3

\* the parser on a food line, an entry line and the lines that follow it: up
\* to MaxRepeats lines of any kind, or one more of a single kind
InitRepeated ==
    /\ \E s \in SeqsUpTo(RepeatedVocabulary, MaxRepeats)
                \cup UNION {SeqsUpTo(OfKind(kind), MaxRepeats + 1) :
                               kind \in Kinds} :
           csv_lines = << Line("food", <<"apple", "", "apple", "14">>),
                          Line("entry", <<"2024-01-01 08:00", "">>) >> \o s
    /\ foods = NoFoods
    /\ entries = <<>>
    /\ i = 0
    /\ pc = "process_lines"
    /\ si = 0
    /\ local = NoLocal
    /\ df = NoDf
    /\ exc = NoExc
    /\ log = <<>>
    /\ NoHandler

SpecRepeated == InitRepeated /\ [][Next]_vars

---------------------------------------------------------------------------
(* DataFrameHandler: the entry DataFrame and its filtered view *)

MaxRows == 3

\* a row of the entry DataFrame with its index label
EntryRow(index, date, glucose, bolus, correction, basal, tags, comments) ==
    [index |-> index, date |-> date, glucose |-> glucose,
     bolus_insulin |-> bolus, correction_insulin |-> correction,
     basal_insulin |-> basal, activity |-> 0, hba1c |-> <<>>,
     meal |-> NoFoods, tags |-> tags, comments |-> comments,
     fast_insulin |-> bolus + correction,
     total_insulin |-> (bolus + correction) + basal, carbs |-> 0]

\* the rows the entry DataFrames are made of, by ascending date (the null
\* date last, as init_df leaves them)
RowVocabulary ==
    << EntryRow(0, 8, <<70>>, 2, 1, 10, <<>>, ""),
       EntryRow(1, 33, <<>>, 0, 0, 0, <<"a">>, "note"),
       EntryRow(2, 128, <<190>>, 4, 0, 0, <<"a", "b">>, ""),
       EntryRow(3, 2200, <<>>, 0, 0, 0, <<>>, ""),
       EntryRow(4, NaT, <<95>>, 0, 0, 0, <<"b">>, "") >>

Select(rows, S) == SelectSeq(rows, LAMBDA r : r.index \in S)

\* the entry DataFrames a handler is constructed with
RecordSets ==
    { Select(RowVocabulary, S) :
        S \in {T \in SUBSET (0..(Len(RowVocabulary) - 1)) :
                  Cardinality(T) <= MaxRows} }

Labels(rows) == {rows[k].index : k \in 1..Len(rows)}

\* the handler with the objects it refers to
HandlerState(fr, self) == [frames |-> fr, self |-> self]

ViewRows(hs) == hs.frames[hs.self.df]

\* self.df = <a new DataFrame object with these rows>
WithView(hs, rows) ==
    [frames |-> DictSet(hs.frames, "view", rows),
     self |-> [hs.self EXCEPT !.df = "view"]]

\* DataFrameHandler(entry_df)
HandlerInit(rows) ==
    WithView(HandlerState(("entry_df" :> rows),
                          [original_df |-> "entry_df", df |-> "None"]),
             rows)

\* variant: self.df = self.original_df, without the copy
ResetDfNoCopy(hs) ==
    [frames |-> hs.frames,
     self |-> [hs.self EXCEPT !.df = hs.self.original_df]]

\* variant: the assignment the wrong way round, original_df = df.copy()
ResetDfSwapped(hs) ==
    [frames |-> DictSet(hs.frames, hs.self.original_df, ViewRows(hs)),
     self |-> hs.self]

\* reset_df
ResetDf(hs) == WithView(hs, hs.frames[hs.self.original_df])

\* the value of a column in a row, as an optional value (glucose may be NaN)
Cell(r, column) == IF column = "glucose" THEN r.glucose ELSE <<r[column]>>

\* variant: the upper bound is included
InLimitsClosed(c, lo, hi) == c # <<>> /\ c[1] >= lo /\ c[1] <= hi

\* (column >= lower_bound) & (column < upper_bound); False on NaN
InLimits(c, lo, hi) == c # <<>> /\ c[1] >= lo /\ c[1] < hi

\* col_lims
ColLims(hs, column, lo, hi) ==
    WithView(hs, SelectSeq(ViewRows(hs),
                           LAMBDA r : InLimits(Cell(r, column), lo, hi)))

\* has_tags
HasTags(hs, invert_filter) ==
    WithView(hs, SelectSeq(ViewRows(hs),
                           LAMBDA r : (r.tags # <<>>) # invert_filter))

\* tags_include, tags being a list
TagsInclude(hs, tags, include_any) ==
    LET Has(r, t) == \E k \in 1..Len(r.tags) : r.tags[k] = t
    IN  WithView(hs, SelectSeq(ViewRows(hs),
            LAMBDA r : IF include_any
                       THEN \E k \in 1..Len(tags) : Has(r, tags[k])
                       ELSE \A k \in 1..Len(tags) : Has(r, tags[k])))

\* variant: the mask is applied to original_df
HasCommentsOfOriginal(hs) ==
    WithView(hs, SelectSeq(hs.frames[hs.self.original_df],
                           LAMBDA r : r.comments # ""))

\* has_comments
HasComments(hs) ==
    WithView(hs, SelectSeq(ViewRows(hs), LAMBDA r : r.comments # ""))

\* the bounds of date(), strings in the format YYYY-MM-DD, as timestamps
DateBoundOf ==
    ("1990-01-01" :> -298032) @@ ("2100-01-01" :> 666216)
    @@ ("2024-01-02" :> 24) @@ ("2024-01-03" :> 48)

\* variant: the mask is applied to original_df
DateOfOriginal(hs, lower_bound, upper_bound) ==
    WithView(hs, SelectSeq(hs.frames[hs.self.original_df],
        LAMBDA r : /\ r.date # NaT
                   /\ r.date >= DateBoundOf[lower_bound]
                   /\ r.date < DateBoundOf[upper_bound]))

\* date
Date(hs, lower_bound, upper_bound) ==
    WithView(hs, SelectSeq(ViewRows(hs),
        LAMBDA r : /\ r.date # NaT
                   /\ r.date >= DateBoundOf[lower_bound]
                   /\ r.date < DateBoundOf[upper_bound]))

\* Series.max() of the dates: the null dates are skipped, NaT if none is left
MaxDate(rows) ==
    LET dates == {rows[k].date : k \in 1..Len(rows)} \ {NaT}
    IN  IF dates = {} THEN NaT
        ELSE CHOOSE d \in dates : \A e \in dates : e <= d

HoursPerDay == 24

\* variant: the comparison includes the bound
LastXDaysInclusive(hs, x) ==
    LET most_recent_timestamp == MaxDate(ViewRows(hs))
    IN  WithView(hs, SelectSeq(ViewRows(hs),
            LAMBDA r : /\ r.date # NaT
                       /\ most_recent_timestamp # NaT
                       /\ r.date >= most_recent_timestamp - x * HoursPerDay))

\* variant: the most recent timestamp is taken from original_df
LastXDaysOfOriginal(hs, x) ==
    LET most_recent_timestamp == MaxDate(hs.frames[hs.self.original_df])
    IN  WithView(hs, SelectSeq(ViewRows(hs),
            LAMBDA r : /\ r.date # NaT
                       /\ most_recent_timestamp # NaT
                       /\ r.date > most_recent_timestamp - x * HoursPerDay))

\* last_x_days; a comparison with NaT is False
LastXDays(hs, x) ==
    LET most_recent_timestamp == MaxDate(ViewRows(hs))
    IN  WithView(hs, SelectSeq(ViewRows(hs),
            LAMBDA r : /\ r.date # NaT
                       /\ most_recent_timestamp # NaT
                       /\ r.date > most_recent_timestamp - x * HoursPerDay))

\* the key of a row under groupby_hour, groupby_day, groupby_weekday
\* (2024-01-01 is a Monday; weekdays are numbered from it)
GroupKey(by, date) ==
    IF by = "hour" THEN date % HoursPerDay
    ELSE IF by = "day" THEN date \div HoursPerDay
    ELSE (date \div HoursPerDay) % 7

\* groupby_hour, groupby_day, groupby_weekday: group key -> rows of the view,
\* rows with a null date in no group
Groupby(hs, by) ==
    LET rows == SelectSeq(ViewRows(hs), LAMBDA r : r.date # NaT)
        keys == {GroupKey(by, rows[k].date) : k \in 1..Len(rows)}
    IN  [g \in keys |->
            SelectSeq(rows, LAMBDA r : GroupKey(by, r.date) = g)]

---------------------------------------------------------------------------
(* ReportCreator *)

RECURSIVE SumSeq(_)
SumSeq(q) == IF q = <<>> THEN 0 ELSE Head(q) + SumSeq(Tail(q))

\* df["glucose"].dropna()
GlucoseDropna(rows) ==
    LET defined == SelectSeq(rows, LAMBDA r : r.glucose # <<>>)
    IN  [k \in 1..Len(defined) |-> defined[k].glucose[1]]

\* variant: the mean of no reading taken as 0
Hba1cFromZero(glucose) ==
    IF glucose = <<>> THEN <<[num |-> 467, den |-> 287]>>
    ELSE <<[num |-> 10 * SumSeq(glucose) + 467 * Len(glucose),
            den |-> 287 * Len(glucose)]>>

\* (glucose.mean() + 46.7) / 28.7 as the fraction num/den, None if glucose
\* is empty
Hba1c(glucose) ==
    IF glucose = <<>> THEN <<>>
    ELSE <<[num |-> 10 * SumSeq(glucose) + 467 * Len(glucose),
            den |-> 287 * Len(glucose)]>>

\* store
Store(report, key, value) == DictSet(report, key, value)

\* the handler after fill_report: save_hba1c, reset_df(15), reset_df(5); the
\* save_* functions between them only read df_handler.df
FillReportHandler(hs) ==
    LastXDays(ResetDf(LastXDays(ResetDf(LastXDays(hs, 90)), 15)), 5)

---------------------------------------------------------------------------
(* ReportCreator: the numbers of the report *)

\* a float as the fraction num/den; 0/0 is NaN
Fraction(num, den) == [num |-> num, den |-> den]

NaN == Fraction(0, 0)

IsNaN(f) == f.den = 0

\* the literal 0.
Zero == Fraction(0, 1)

IsZero(f) == f.den # 0 /\ f.num = 0

\* Series.mean(): NaN of no value
Mean(values) == Fraction(SumSeq(values), Len(values))

\* Series.std(), the sample standard deviation (ddof = 1), kept as its
\* square; NaN of fewer than two values
Std(values) ==
    LET n == Len(values)
        s == SumSeq(values)
        sq == SumSeq([k \in 1..n |-> values[k] * values[k]])
    IN  IF n < 2 THEN NaN ELSE Fraction(n * sq - s * s, n * (n - 1))

\* fillna(0)
Fillna(f) == IF IsNaN(f) THEN Zero ELSE f

\* the keys of a groupby, ascending
RECURSIVE SortedSeq(_)
SortedSeq(S) ==
    IF S = {} THEN <<>>
    ELSE LET m == CHOOSE x \in S : \A y \in S : x <= y
         IN  <<m>> \o SortedSeq(S \ {m})

Column(rows, column) == [k \in 1..Len(rows) |-> rows[k][column]]

\* variant: the upper bound counted in range
SaveTirUpperInRange(report, rows, lower_bound, upper_bound) ==
    LET glucose == GlucoseDropna(rows)
        Count(P(_)) == Len(SelectSeq(glucose, P))
        in_range == Count(LAMBDA g : g >= lower_bound /\ g <= upper_bound)
        below_range == Count(LAMBDA g : g < lower_bound)
        above_range == Count(LAMBDA g : g > upper_bound)
    IN  Store(Store(Store(report, "time_in_range", in_range),
                    "time_below_range", below_range),
              "time_above_range", above_range)

\* save_tir: Series.count() counts the values that are not NaN, and a
\* comparison with NaN is False
SaveTir(report, rows, lower_bound, upper_bound) ==
    LET glucose == GlucoseDropna(rows)
        Count(P(_)) == Len(SelectSeq(glucose, P))
        in_range == Count(LAMBDA g : g >= lower_bound /\ g < upper_bound)
        below_range == Count(LAMBDA g : g < lower_bound)
        above_range == Count(LAMBDA g : g >= upper_bound)
    IN  Store(Store(Store(report, "time_in_range", in_range),
                    "time_below_range", below_range),
              "time_above_range", above_range)

\* save_entry_count
SaveEntryCount(report, hs) ==
    LET rows == ViewRows(hs)
        groups == Groupby(hs, "day")
        keys == SortedSeq(DOMAIN groups)
        count == [k \in 1..Len(keys) |-> Len(groups[keys[k]])]
        entry_count == Len(rows)
        mean_daily_entry_count == IF rows = <<>> THEN Zero ELSE Mean(count)
    IN  Store(Store(report, "entry_count", entry_count),
              "mean_daily_entry_count", mean_daily_entry_count)

\* save_fast_insulin_use: the std of the daily sums is stored as it is
SaveFastInsulinUse(report, hs) ==
    LET rows == ViewRows(hs)
        groups == Groupby(hs, "day")
        keys == SortedSeq(DOMAIN groups)
        fast_insulin_sum ==
            [k \in 1..Len(keys) |->
                SumSeq(Column(groups[keys[k]], "fast_insulin"))]
    IN  Store(Store(report, "mean_daily_fast_insulin",
                    IF rows = <<>> THEN Zero ELSE Mean(fast_insulin_sum)),
              "std_daily_fast_insulin",
              IF rows = <<>> THEN Zero ELSE Std(fast_insulin_sum))

\* save_mean_glucose_by_hour: one element per hour that has a row with a
\* date and a glucose, NaN filled with 0
SaveMeanGlucoseByHour(report, rows) ==
    LET df_ == SelectSeq(rows, LAMBDA r : r.date # NaT /\ r.glucose # <<>>)
        hour == SortedSeq({GroupKey("hour", df_[k].date) : k \in 1..Len(df_)})
        Group(h) ==
            GlucoseDropna(SelectSeq(df_,
                LAMBDA r : GroupKey("hour", r.date) = h))
    IN  Store(report, "glucose_by_hour_series",
              [mean_glucose |->
                   [k \in 1..Len(hour) |-> Fillna(Mean(Group(hour[k])))],
               hour |-> hour,
               std_error |->
                   [k \in 1..Len(hour) |-> Fillna(Std(Group(hour[k])))]])

\* save_tir_by_hour: three arrays of 24 counts, element h + 1 for hour h
SaveTirByHour(report, rows, lower_bound, upper_bound) ==
    LET AtHour(h) ==
            GlucoseDropna(SelectSeq(rows,
                LAMBDA r : r.date # NaT /\ GroupKey("hour", r.date) = h))
        Count(h, P(_)) == Len(SelectSeq(AtHour(h), P))
    IN  Store(Store(Store(report, "time_above_range_by_hour",
                [k \in 1..HoursPerDay |->
                    Count(k - 1, LAMBDA g : g >= upper_bound)]),
              "time_below_range_by_hour",
                [k \in 1..HoursPerDay |->
                    Count(k - 1, LAMBDA g : g < lower_bound)]),
              "time_in_range_by_hour",
                [k \in 1..HoursPerDay |->
                    Count(k - 1, LAMBDA g : g >= lower_bound
                                            /\ g < upper_bound)])

---------------------------------------------------------------------------
(* ReportCreator: the table of entries, fill_report and the renderers *)

\* strftime("%d/%m/%y %H:%M") of the dates that occur in the rows
StrftimeOf ==
    (8 :> "01/01/24 08:00") @@ (33 :> "02/01/24 09:00")
    @@ (128 :> "06/01/24 08:00") @@ (2200 :> "01/04/24 16:00")

\* int(x) of the quotient a / b, b > 0: truncation toward zero
TruncDiv(a, b) == IF a >= 0 THEN a \div b ELSE -((-a) \div b)

\* fillna(0) and f"{int(x)}" if x != 0 else '': the digits of a number as
\* the number itself, <<>> for the empty string
NumberToStr(c) == IF c = <<>> \/ c[1] = 0 THEN <<>> ELSE c

\* meal_to_str: per food its grams to one decimal (meal is kept in 1/10000 g)
MealToStr(meal) == [x \in DOMAIN meal |-> TruncDiv(meal[x] + 500, 1000)]

\* a row of the table save_entries_df stores
DisplayRow(r) ==
    [Date |-> StrftimeOf[r.date],
     Glucose |-> NumberToStr(r.glucose),
     Bolus |-> NumberToStr(<<r.bolus_insulin>>),
     Correction |-> NumberToStr(<<r.correction_insulin>>),
     Basal |-> NumberToStr(<<r.basal_insulin>>),
     Meal |-> MealToStr(r.meal),
     Carbohydrates |-> NumberToStr(<<TruncDiv(r.carbs, 10000)>>)]

\* the exception save_entries_df raises: NaT has no strftime
SaveEntriesDfExc(rows) ==
    IF \E k \in 1..Len(rows) : rows[k].date = NaT
    THEN Raise("ValueError", "NaTType does not support strftime")
    ELSE NoExc

\* save_entries_df: the rows of the view in display form, [::-1]
SaveEntriesDf(report, rows) ==
    Store(report, "entries_dataframe",
          [type |-> "DataFrame",
           rows |-> [k \in 1..Len(rows) |->
                        DisplayRow(rows[Len(rows) + 1 - k])]])

\* ReportCreator.reset_df(day_count), day_count None as <<>>: the handler
\* after df_handler.reset_df().last_x_days(day_count); with None the view is
\* reset and -x raises before it is filtered
ReportResetDf(hs, day_count) ==
    IF day_count = <<>> THEN ResetDf(hs)
    ELSE LastXDays(ResetDf(hs), day_count[1])

ReportResetDfExc(day_count) ==
    IF day_count = <<>>
    THEN Raise("TypeError", "bad operand type for unary -: 'NoneType'")
    ELSE NoExc

\* fill_report: the report after its nine calls
FillReport(report, hs) ==
    LET h90 == LastXDays(hs, 90)
        h15 == ReportResetDf(h90, <<15>>)
        h5 == ReportResetDf(h15, <<5>>)
        r1 == Store(report, "hba1c", Hba1c(GlucoseDropna(ViewRows(h90))))
        r2 == SaveTir(r1, ViewRows(h15), 70, 180)
        r3 == SaveEntryCount(r2, h15)
        r4 == SaveFastInsulinUse(r3, h15)
        r5 == SaveMeanGlucoseByHour(r4, ViewRows(h15))
        r6 == SaveTirByHour(r5, ViewRows(h15), 70, 180)
    IN  SaveEntriesDf(r6, ViewRows(h5))

\* the keys that hold numbers, in the order fill_report stores them
NumberKeys ==
    << "hba1c", "time_in_range", "time_below_range", "time_above_range",
       "entry_count", "mean_daily_entry_count", "mean_daily_fast_insulin",
       "std_daily_fast_insulin" >>

\* the keys whose numbers are integers already
IntKeys ==
    {"time_in_range", "time_below_range", "time_above_range", "entry_count"}

\* int(value) of a float
IntOfFraction(f) == Fraction(TruncDiv(f.num, f.den), 1)

\* int(value) of a standard deviation kept as its square
IntOfStd(f) ==
    LET q == CHOOSE q \in 0..(f.num \div f.den) :
                 /\ q * q * f.den <= f.num
                 /\ (q + 1) * (q + 1) * f.den > f.num
    IN  Fraction(q * q, 1)

\* DataFrame.to_json(): a string in place of the DataFrame
ToJson(table) == [type |-> "str", rows |-> table.rows]

\* list(map(int, ...)) of the three arrays of the glucose-by-hour series
SeriesAsInt(series) ==
    [mean_glucose |-> [k \in 1..Len(series.mean_glucose) |->
                          IntOfFraction(series.mean_glucose[k])],
     hour |-> series.hour,
     std_error |-> [k \in 1..Len(series.std_error) |->
                       IntOfStd(series.std_error[k])]]

\* the last loop of JSONReportCreator.create_report from the k-th key on:
\* report_as_dict[key] = int(value), up to the first NaN
RECURSIVE JsonNumbers(_, _)
JsonNumbers(report, k) ==
    IF k > Len(NumberKeys) THEN [report |-> report, raised |-> NoExc]
    ELSE LET key == NumberKeys[k]
         IN  IF key \notin DOMAIN report \/ key \in IntKeys
             THEN JsonNumbers(report, k + 1)
             ELSE IF key = "hba1c"
             THEN JsonNumbers(
                      IF report[key] = <<>> THEN report
                      ELSE Store(report, key,
                                 <<IntOfFraction(report[key][1])>>),
                      k + 1)
             ELSE IF IsNaN(report[key])
             THEN [report |-> report,
                   raised |-> Raise("ValueError",
                                    "cannot convert float NaN to integer")]
             ELSE JsonNumbers(
                      Store(report, key,
                            IF key = "std_daily_fast_insulin"
                            THEN IntOfStd(report[key])
                            ELSE IntOfFraction(report[key])),
                      k + 1)

TirByHourKeys ==
    {"time_in_range_by_hour", "time_above_range_by_hour",
     "time_below_range_by_hour"}

\* JSONReportCreator.create_report: the report it leaves and the exception
\* it raises; a missing key is retrieved as None
JsonCreateReport(report) ==
    IF "entries_dataframe" \notin DOMAIN report
    THEN [report |-> report,
          raised |-> Raise("AttributeError", "to_json")]
    ELSE IF report["entries_dataframe"].type # "DataFrame"
    THEN [report |-> report,
          raised |-> Raise("AttributeError", "to_json")]
    ELSE LET r1 == Store(report, "entries_dataframe",
                         ToJson(report["entries_dataframe"]))
         IN  IF "glucose_by_hour_series" \notin DOMAIN r1
             THEN [report |-> r1, raised |-> Raise("AttributeError", "keys")]
             ELSE LET r2 == Store(r1, "glucose_by_hour_series",
                               SeriesAsInt(r1["glucose_by_hour_series"]))
                  IN  IF ~(TirByHourKeys \subseteq DOMAIN r2)
                      THEN [report |-> r2,
                            raised |-> Raise("TypeError", "NoneType")]
                      ELSE JsonNumbers(r2, 1)

\* the keys write_statistics_page formats or sums
StatisticsKeys ==
    {"entry_count", "mean_daily_entry_count", "mean_daily_fast_insulin",
     "std_daily_fast_insulin", "time_above_range", "time_below_range",
     "time_in_range"}

\* PDFReportCreator.create_report reads the report; the exception it raises
\* on a report that fill_report did not leave
PdfCreateReportExc(report) ==
    IF ~(StatisticsKeys \subseteq DOMAIN report)
    THEN Raise("TypeError", "NoneType")
    ELSE IF "glucose_by_hour_series" \notin DOMAIN report
    THEN Raise("TypeError", "NoneType")
    ELSE IF ~(TirByHourKeys \subseteq DOMAIN report)
    THEN Raise("AttributeError", "astype")
    ELSE IF "entries_dataframe" \notin DOMAIN report
    THEN Raise("AttributeError", "keys")
    ELSE IF report["entries_dataframe"].type # "DataFrame"
    THEN Raise("AttributeError", "astype")
    ELSE NoExc

---------------------------------------------------------------------------
(* The handler and the report creator as a state machine *)

Handler == HandlerState(frames, df_handler)

ParserIdle ==
    /\ csv_lines = <<>>
    /\ foods = NoFoods
    /\ entries = <<>>
    /\ i = 0
    /\ pc = "returned"
    /\ si = 0
    /\ local = NoLocal
    /\ df = NoDf
    /\ exc = NoExc
    /\ log = <<>>

InitHandler ==
    /\ ParserIdle
    /\ given \in RecordSets
    /\ frames = HandlerInit(given).frames
    /\ df_handler = HandlerInit(given).self
    /\ report_as_dict = <<>>
    /\ last = [NoOp EXCEPT !.op = "__init__"]

\* the handler becomes hs by the operation op
Becomes(hs, op) ==
    /\ frames' = hs.frames
    /\ df_handler' = hs.self
    /\ last' = [op EXCEPT !.before = ViewRows(Handler)]
    /\ UNCHANGED <<given, pvars>>

\* the operations below read self.df: they need a DataFrame there
HasView == df_handler.df # "None"

ColLimsArguments ==
    { <<"glucose", 0, 9999>>, <<"glucose", 70, 190>>, <<"glucose", 10, 1>>,
      <<"glucose", 191, 192>>, <<"total_insulin", 0, 4>> }

DoResetDf ==
    /\ frames' = ResetDf(Handler).frames
    /\ df_handler' = ResetDf(Handler).self
    /\ last' = [NoOp EXCEPT !.op = "reset_df",
                            !.before = IF HasView THEN ViewRows(Handler)
                                       ELSE <<>>,
                            !.flag = HasView]
    /\ UNCHANGED <<report_as_dict, given, pvars>>

DoColLims ==
    /\ HasView
    /\ \E a \in ColLimsArguments :
           Becomes(ColLims(Handler, a[1], a[2], a[3]),
                   [NoOp EXCEPT !.op = "col_lims", !.column = a[1],
                                !.lo = a[2], !.hi = a[3]])
    /\ UNCHANGED report_as_dict

DoHasTags ==
    /\ HasView
    /\ \E invert_filter \in BOOLEAN :
           Becomes(HasTags(Handler, invert_filter),
                   [NoOp EXCEPT !.op = "has_tags", !.flag = invert_filter])
    /\ UNCHANGED report_as_dict

DoTagsInclude ==
    /\ HasView
    /\ \E tags \in {<<"a">>, <<"a", "b">>}, include_any \in BOOLEAN :
           Becomes(TagsInclude(Handler, tags, include_any),
                   [NoOp EXCEPT !.op = "tags_include", !.tags = tags,
                                !.flag = include_any])
    /\ UNCHANGED report_as_dict

DoHasComments ==
    /\ HasView
    /\ Becomes(HasComments(Handler), [NoOp EXCEPT !.op = "has_comments"])
    /\ UNCHANGED report_as_dict

DoDate ==
    /\ HasView
    /\ \E b \in { <<"1990-01-01", "2100-01-01">>,
                  <<"2024-01-02", "2024-01-03">>,
                  <<"2024-01-03", "2024-01-02">> } :
           Becomes(Date(Handler, b[1], b[2]),
                   [NoOp EXCEPT !.op = "date", !.lo = DateBoundOf[b[1]],
                                !.hi = DateBoundOf[b[2]]])
    /\ UNCHANGED report_as_dict

DoLastXDays ==
    /\ HasView
    /\ \E x \in {-5, 0, 1, 5, 90} :
           Becomes(LastXDays(Handler, x),
                   [NoOp EXCEPT !.op = "last_x_days", !.x = x])
    /\ UNCHANGED report_as_dict

\* groupby_hour, groupby_day, groupby_weekday: the handler is left as it is
DoGroupby ==
    /\ HasView
    /\ \E by \in {"hour", "day", "weekday"} :
           Becomes(Handler,
                   [NoOp EXCEPT !.op = "groupby", !.column = by,
                                !.groups = Groupby(Handler, by)])
    /\ UNCHANGED report_as_dict

\* the view replaced from outside (handler.df = None)
DoReplaceView ==
    /\ HasView
    /\ frames' = [k \in DOMAIN frames \ {"view"} |-> frames[k]]
    /\ df_handler' = [df_handler EXCEPT !.df = "None"]
    /\ last' = [NoOp EXCEPT !.op = "replace", !.before = ViewRows(Handler)]
    /\ UNCHANGED <<report_as_dict, given, pvars>>

\* ReportCreator.save_hba1c
DoSaveHba1c ==
    /\ HasView
    /\ Becomes(LastXDays(Handler, 90), [NoOp EXCEPT !.op = "save_hba1c"])
    /\ report_as_dict' =
           Store(report_as_dict, "hba1c",
                 Hba1c(GlucoseDropna(ViewRows(LastXDays(Handler, 90)))))

\* ReportCreator.fill_report
DoFillReport ==
    /\ HasView
    /\ Becomes(FillReportHandler(Handler), [NoOp EXCEPT !.op = "fill_report"])
    /\ report_as_dict' = FillReport(report_as_dict, Handler)

NextHandler ==
    \/ DoResetDf
    \/ DoColLims
    \/ DoHasTags
    \/ DoTagsInclude
    \/ DoHasComments
    \/ DoDate
    \/ DoLastXDays
    \/ DoGroupby
    \/ DoReplaceView
    \/ DoSaveHba1c
    \/ DoFillReport

SpecHandler == InitHandler /\ [][NextHandler]_vars

---------------------------------------------------------------------------
(* The report creator on a handler with a filtered view *)

\* ReportCreator.__init__: self.report_as_dict = {}
NewReport == <<>>

\* ReportCreator(df_handler) on a handler whose view is a selection of its
\* rows, as the filters leave it
InitReport ==
    /\ ParserIdle
    /\ given \in RecordSets
    /\ \E S \in SUBSET Labels(given) :
           /\ frames = WithView(HandlerInit(given), Select(given, S)).frames
           /\ df_handler = WithView(HandlerInit(given), Select(given, S)).self
    /\ report_as_dict = NewReport
    /\ last = [NoOp EXCEPT !.op = "ReportCreator"]

\* the bounds save_tir is called with: its defaults and two others
TirArguments == { <<70, 180>>, <<70, 190>>, <<96, 100>> }

\* save_tir of a new ReportCreator(df_handler)
DoSaveTir ==
    /\ HasView
    /\ \E b \in TirArguments :
           /\ Becomes(Handler, [NoOp EXCEPT !.op = "save_tir",
                                            !.lo = b[1], !.hi = b[2]])
           /\ report_as_dict' =
                  SaveTir(NewReport, ViewRows(Handler), b[1], b[2])

\* save_entry_count of a new ReportCreator(df_handler)
DoSaveEntryCount ==
    /\ HasView
    /\ Becomes(Handler, [NoOp EXCEPT !.op = "save_entry_count"])
    /\ report_as_dict' = SaveEntryCount(NewReport, Handler)

\* save_fast_insulin_use of a new ReportCreator(df_handler)
DoSaveFastInsulinUse ==
    /\ HasView
    /\ Becomes(Handler, [NoOp EXCEPT !.op = "save_fast_insulin_use"])
    /\ report_as_dict' = SaveFastInsulinUse(NewReport, Handler)

\* save_mean_glucose_by_hour of a new ReportCreator(df_handler)
DoSaveMeanGlucoseByHour ==
    /\ HasView
    /\ Becomes(Handler, [NoOp EXCEPT !.op = "save_mean_glucose_by_hour"])
    /\ report_as_dict' = SaveMeanGlucoseByHour(NewReport, ViewRows(Handler))

\* save_entries_df of a new ReportCreator(df_handler)
DoSaveEntriesDf ==
    /\ HasView
    /\ Becomes(Handler,
               [NoOp EXCEPT !.op = "save_entries_df",
                            !.raised = SaveEntriesDfExc(ViewRows(Handler))])
    /\ report_as_dict' =
           IF SaveEntriesDfExc(ViewRows(Handler)) # NoExc THEN NewReport
           ELSE SaveEntriesDf(NewReport, ViewRows(Handler))

\* ReportCreator.reset_df(day_count), day_count left out or given
DoReportResetDf ==
    /\ HasView
    /\ \E day_count \in {<<>>, <<5>>, <<15>>} :
           Becomes(ReportResetDf(Handler, day_count),
                   [NoOp EXCEPT !.op = "ReportCreator.reset_df",
                                !.tags = day_count,
                                !.raised = ReportResetDfExc(day_count)])
    /\ UNCHANGED report_as_dict

\* JSONReportCreator.create_report
DoCreateReportJSON ==
    /\ Becomes(Handler,
               [NoOp EXCEPT !.op = "JSONReportCreator.create_report",
                            !.report = report_as_dict,
                            !.raised = JsonCreateReport(report_as_dict).raised])
    /\ report_as_dict' = JsonCreateReport(report_as_dict).report

\* PDFReportCreator.create_report
DoCreateReportPDF ==
    /\ Becomes(Handler,
               [NoOp EXCEPT !.op = "PDFReportCreator.create_report",
                            !.report = report_as_dict,
                            !.raised = PdfCreateReportExc(report_as_dict)])
    /\ UNCHANGED report_as_dict

NextReport ==
    \/ DoSaveTir
    \/ DoSaveEntryCount
    \/ DoSaveFastInsulinUse
    \/ DoSaveMeanGlucoseByHour
    \/ DoSaveEntriesDf
    \/ DoReportResetDf
    \/ DoFillReport
    \/ DoCreateReportJSON
    \/ DoCreateReportPDF

SpecReport == InitReport /\ [][NextReport]_vars

---------------------------------------------------------------------------
(* Vocabulary of the properties *)

LineIndexes == 0..(NLines - 1)

IsEntryLine(k) == LineAt(k).field = "entry"

IsBloodsugarLine(k) ==
    /\ LineAt(k).field = "measurement"
    /\ Len(LineAt(k).values) > 0
    /\ LineAt(k).values[1] = "bloodsugar"

EntryLineCount == Cardinality({k \in LineIndexes : IsEntryLine(k)})

AllColumns ==
    {"date", "glucose", "bolus_insulin", "correction_insulin",
     "basal_insulin", "activity", "hba1c", "meal", "tags", "comments",
     "carbs", "fast_insulin", "total_insulin"}

Finished == pc \in {"returned", "raised"}

\* the lines logged as sub-records of the entry that starts at line e
SubLinesOf(e) ==
    {k \in 1..Len(log) : log[k].how = "sub" /\ log[k].owner = e}

\* the line at which the n-th entry of self.entries starts
StartOfEntry(n) ==
    LET starts == {k \in 1..Len(log) : log[k].how = "entry"}
    IN  CHOOSE k \in starts :
            Cardinality({m \in starts : m <= k}) = n

\* a food line before line k registers the food that foodEaten line k names
FoodKnownAt(k) ==
    \E m \in 0..(k - 1) :
        /\ LineAt(m).field = "food"
        /\ Lower(LineAt(m).values[1]) = Lower(LineAt(k).values[1])

---------------------------------------------------------------------------
(* Properties *)

\* C1: when parse_csv returns, the DataFrame has exactly as many rows as the
\* backup has lines of record type `entry`, wherever those lines stand.
C1_EntryCountEqualsEntryLines ==
    pc = "returned" => Len(df.rows) = EntryLineCount

\* reached: a returned parse with two entry lines, one right after a food
\* line and one right after a sub-record line
C1_Witness ==
    /\ pc = "returned"
    /\ EntryLineCount >= 2
    /\ \E k \in LineIndexes : k > 0 /\ IsEntryLine(k)
                              /\ LineAt(k - 1).field = "food"
    /\ \E k \in LineIndexes : k > 0 /\ IsEntryLine(k)
                              /\ LineAt(k - 1).field \in SubRecordFields

\* C2: when parse_csv returns, the rows are in ascending order of their
\* timestamps (rows whose timestamp is null come after all the others),
\* whatever the order of the entry lines in the file.
C2_SortedByTimestamp ==
    pc = "returned" =>
        \A a, b \in 1..Len(df.rows) :
            a < b =>
                /\ (df.rows[a].date # NaT /\ df.rows[b].date # NaT
                        => df.rows[a].date <= df.rows[b].date)
                /\ (df.rows[a].date = NaT => df.rows[b].date = NaT)

\* reached: a returned parse of a file whose entry lines are in descending
\* order of date
C2_Witness ==
    /\ pc = "returned"
    /\ \E a, b \in 1..Len(entries) :
           /\ a < b
           /\ entries[a].date \in DOMAIN DateOf
           /\ entries[b].date \in DOMAIN DateOf
           /\ DateOf[entries[a].date] > DateOf[entries[b].date]

\* C3: in every row of the returned DataFrame fast_insulin is bolus_insulin
\* plus correction_insulin and total_insulin is fast_insulin plus
\* basal_insulin, also for an entry without an insulin line (all doses 0).
C3_DerivedInsulin ==
    pc = "returned" =>
        \A k \in 1..Len(df.rows) :
            /\ df.rows[k].fast_insulin
                 = df.rows[k].bolus_insulin + df.rows[k].correction_insulin
            /\ df.rows[k].total_insulin
                 = df.rows[k].fast_insulin + df.rows[k].basal_insulin

\* reached: a returned DataFrame with one row with doses and one with none
C3_Witness ==
    /\ pc = "returned"
    /\ \E k \in 1..Len(df.rows) :
           /\ df.rows[k].correction_insulin > 0
           /\ df.rows[k].basal_insulin > 0
           /\ df.rows[k].total_insulin > df.rows[k].fast_insulin
    /\ \E k \in 1..Len(df.rows) :
           /\ df.rows[k].bolus_insulin = 0
           /\ df.rows[k].correction_insulin = 0
           /\ df.rows[k].basal_insulin = 0
           /\ df.rows[k].total_insulin = 0

\* C4: the lines are handled one by one in file order and none is skipped;
\* a line is taken as a sub-record exactly when it is a measurement,
\* foodEaten or entryTag line that directly follows an entry line or another
\* sub-record; the line that stops a scan is handled next at top level (a
\* food line is registered, an entry line starts an entry); and the tags of
\* each entry are the entryTag lines of its own scan.
C4_ScanStopsWithoutConsuming ==
    /\ pc = "process_lines" => i = Len(log)
    /\ pc = "process_entry" => si = Len(log)
    /\ \A k \in 1..Len(log) :
           /\ log[k].line = k - 1
           /\ csv_lines[k].field = "food" => log[k].how = "food"
           /\ csv_lines[k].field = "entry" => log[k].how = "entry"
           /\ log[k].how = "sub" <=>
                 /\ csv_lines[k].field \in SubRecordFields
                 /\ k > 1
                 /\ log[k - 1].how \in {"entry", "sub"}
    /\ \A n \in 1..Len(entries) :
           Len(entries[n].tags) =
               Cardinality({k \in SubLinesOf(log[StartOfEntry(n)].line) :
                               csv_lines[k].field = "entryTag"})

\* reached: a scan that consumed a sub-record was stopped by a food line and
\* a later scan by an entry line, and both stopping lines were handled
C4_Witness ==
    \E a, b \in 2..Len(log) :
        /\ log[a].how = "food" /\ log[a - 1].how \in {"entry", "sub"}
        /\ log[b].how = "entry" /\ log[b - 1].how = "sub"
        /\ Len(entries) >= 1

\* C5: an empty input, and an input without entry lines, parse without error
\* into an empty DataFrame that has all thirteen columns.
C5_EmptyInputParses ==
    (Finished /\ EntryLineCount = 0) =>
        /\ pc = "returned"
        /\ df.rows = <<>>
        /\ df.columns = AllColumns

\* C6: a foodEaten line consumed by a scan whose food is not in the catalog
\* at that point ends the parse with an error that carries the position of
\* that line.
C6_UnknownFoodReportedWithPosition ==
    \A k \in LineIndexes :
        ( /\ LineAt(k).field = "foodEaten"
          /\ ~FoodKnownAt(k)
          /\ \/ Len(log) > k /\ log[k + 1].how = "sub"
             \/ pc = "raised" /\ Len(log) = k /\ k > 0
                              /\ log[k].how \in {"entry", "sub"} )
        => /\ pc = "raised"
           /\ exc.type = "KeyError"
           /\ exc.position = k

\* C7: a returned DataFrame has no row with a null timestamp, and no entry
\* line of the parsed file has a date field that is not a date.
C7_NoNullTimestamp ==
    pc = "returned" =>
        /\ \A k \in 1..Len(df.rows) : df.rows[k].date # NaT
        /\ \A k \in LineIndexes :
               IsEntryLine(k) => LineAt(k).values[1] \in DOMAIN DateOf

\* C8: a backup of valid entries followed by one last entry line with an
\* unparseable date field is parsed into a non-empty DataFrame with all
\* thirteen columns: parse_csv returns and does not raise.
C8_InvalidLastDateReturns ==
    ( /\ Finished
      /\ NLines >= 2
      /\ IsEntryLine(NLines - 1)
      /\ LineAt(NLines - 1).values[1] = "date_formatted"
      /\ \E k \in 0..(NLines - 2) : IsEntryLine(k)
      /\ \A k \in 0..(NLines - 2) :
             /\ IsEntryLine(k) => LineAt(k).values[1] \in DOMAIN DateOf
             /\ LineAt(k).field = "foodEaten" => FoodKnownAt(k) )
    => /\ pc = "returned"
       /\ df.rows # <<>>
       /\ df.columns = AllColumns

\* C9: a measurement, foodEaten or entryTag line met at top level is
\* skipped: the step that handles it changes neither the entries nor the
\* food catalog, raises nothing and moves to the next line; and at every
\* moment each entry line handled so far has its entry (appended, or being
\* scanned).
C9_OrphanSubRecordsSkipped ==
    /\ [][ ( /\ pc = "process_lines"
             /\ i < NLines
             /\ LineAt(i).field \in SubRecordFields )
           => ( /\ entries' = entries
                /\ foods' = foods
                /\ exc' = NoExc
                /\ pc' = "process_lines"
                /\ i' = i + 1 ) ]_vars
    /\ [](pc \in {"process_lines", "process_entry"} =>
            Len(entries) + (IF pc = "process_entry" THEN 1 ELSE 0)
              = Cardinality({k \in 1..Len(log) :
                                csv_lines[k].field = "entry"}))

\* reached: a returned parse in which a sub-record line was skipped at top
\* level after an unrecognized line, and one at the start of the file, with
\* an entry produced from a later line
C9_Witness ==
    /\ pc = "returned"
    /\ df.rows # <<>>
    /\ \E k \in 1..Len(log) :
           /\ log[k].how = "skip"
           /\ csv_lines[k].field \in SubRecordFields
           /\ \E m \in (k + 1)..Len(log) : log[m].how = "entry"
           /\ (k = 1 \/ csv_lines[k - 1].field \notin
                            SubRecordFields \cup {"entry", "food"})

\* C10: an entry has a glucose value exactly when its scan contained a
\* bloodsugar line; so when every bloodsugar line was consumed by a scan and
\* no scan consumed two, the returned rows with a glucose value are as many
\* as the bloodsugar lines of the file.
C10_GlucoseIffBloodsugarLine ==
    /\ \A n \in 1..Len(entries) :
           entries[n].glucose # <<>> <=>
               \E k \in SubLinesOf(log[StartOfEntry(n)].line) :
                   IsBloodsugarLine(k - 1)
    /\ ( /\ pc = "returned"
         /\ \A k \in LineIndexes :
                IsBloodsugarLine(k) => log[k + 1].how = "sub"
         /\ \A k, m \in LineIndexes :
                ( /\ IsBloodsugarLine(k) /\ IsBloodsugarLine(m)
                  /\ log[k + 1].owner = log[m + 1].owner ) => k = m )
       => Cardinality({r \in 1..Len(df.rows) : df.rows[r].glucose # <<>>})
            = Cardinality({k \in LineIndexes : IsBloodsugarLine(k)})

\* reached: a returned parse with one entry that has a bloodsugar line and
\* one entry that has none
C10_Witness ==
    /\ pc = "returned"
    /\ \A k \in LineIndexes : IsBloodsugarLine(k) => log[k + 1].how = "sub"
    /\ \E r \in 1..Len(df.rows) : df.rows[r].glucose = <<95>>
    /\ \E r \in 1..Len(df.rows) : df.rows[r].glucose = <<>>

\* the last line of the scan of the n-th entry that is a measurement of the
\* given category, as a set (empty if there is none)
LastMeasurement(n, category) ==
    LET lines == {k \in SubLinesOf(log[StartOfEntry(n)].line) :
                     /\ csv_lines[k].field = "measurement"
                     /\ csv_lines[k].values[1] = category}
    IN  {k \in lines : \A m \in lines : m <= k}

\* g is the decimal t (in tenths) with its fractional part dropped
TruncatedTowardZero(t, g) ==
    /\ t >= 0 => (10 * g <= t /\ t < 10 * g + 10)
    /\ t < 0 => (10 * g >= t /\ t > 10 * g - 10)

\* C11: once a food name is in the catalog with a value, no later step of
\* the parse removes the name or changes the value.
C11_FoodCatalogOnlyGrows ==
    [][\A n \in DOMAIN foods : n \in DOMAIN foods' /\ foods'[n] = foods[n]]_vars

\* C12: the glucose, the three insulin doses and the activity of an entry are
\* the decimal fields of its measurement lines with the fractional part
\* dropped (toward zero, also for a negative field), never rounded.
C12_TruncationTowardZero ==
    \A n \in 1..Len(entries) :
        /\ \A k \in LastMeasurement(n, "bloodsugar") :
               /\ entries[n].glucose # <<>>
               /\ TruncatedTowardZero(FloatOf[csv_lines[k].values[2]],
                                      entries[n].glucose[1])
        /\ \A k \in LastMeasurement(n, "insulin") :
               /\ TruncatedTowardZero(FloatOf[csv_lines[k].values[2]],
                                      entries[n].bolus_insulin)
               /\ TruncatedTowardZero(FloatOf[csv_lines[k].values[3]],
                                      entries[n].correction_insulin)
               /\ TruncatedTowardZero(FloatOf[csv_lines[k].values[4]],
                                      entries[n].basal_insulin)
        /\ \A k \in LastMeasurement(n, "activity") :
               TruncatedTowardZero(FloatOf[csv_lines[k].values[2]],
                                   entries[n].activity)

\* reached: one entry with glucose 95 from the field 95.7 and one with
\* glucose -2 from the field -2.7
C12_Witness ==
    /\ \E n \in 1..Len(entries) :
           /\ entries[n].glucose = <<95>>
           /\ \E k \in LastMeasurement(n, "bloodsugar") :
                  csv_lines[k].values[2] = "95.7"
    /\ \E n \in 1..Len(entries) :
           /\ entries[n].glucose = <<-2>>
           /\ \E k \in LastMeasurement(n, "bloodsugar") :
                  csv_lines[k].values[2] = "-2.7"

\* C13: every row of a returned DataFrame has fast_insulin >= 0,
\* total_insulin >= fast_insulin >= max(bolus_insulin, correction_insulin)
\* and carbs >= 0, also when numeric fields of the input are negative.
C13_NonNegativeDerivedValues ==
    pc = "returned" =>
        \A k \in 1..Len(df.rows) :
            /\ df.rows[k].fast_insulin >= 0
            /\ df.rows[k].total_insulin >= df.rows[k].fast_insulin
            /\ df.rows[k].fast_insulin >= df.rows[k].bolus_insulin
            /\ df.rows[k].fast_insulin >= df.rows[k].correction_insulin
            /\ df.rows[k].carbs >= 0

---------------------------------------------------------------------------
(* Properties of the handler and of the report creator *)

View == ViewRows(Handler)

Original == frames[df_handler.original_df]

\* a is b with some rows taken out, the others in the same order
IsSubsequence(a, b) == SelectSeq(b, LAMBDA r : r.index \in Labels(a)) = a

\* r is within x days before the latest of the dates of rows
WithinLastDays(r, rows, x) ==
    /\ r.date # NaT
    /\ \A k \in 1..Len(rows) :
           rows[k].date # NaT => r.date > rows[k].date - x * HoursPerDay

NoGlucose(rows) == \A k \in 1..Len(rows) : rows[k].glucose = <<>>

\* C14: right after construction and right after reset_df (whatever the view
\* was before) the view has the same rows as original_df and is another
\* object.
C14_ViewEqualsOriginalAfterReset ==
    last.op \in {"__init__", "reset_df"} =>
        /\ df_handler.df # df_handler.original_df
        /\ View = Original

\* reached: reset_df after filters that had narrowed the view
C14_Witness ==
    /\ last.op = "reset_df"
    /\ last.flag
    /\ Len(last.before) < Len(given)
    /\ Len(View) >= 2

\* C15: original_df is the object the handler was constructed with and its
\* rows, their values and their order never change.
C15_OriginalUnchanged ==
    /\ df_handler.original_df = "entry_df"
    /\ frames["entry_df"] = given

\* reached: fill_report has run and left a view narrower than original_df
C15_Witness ==
    /\ last.op = "fill_report"
    /\ Len(View) < Len(given)
    /\ Len(last.before) < Len(given)
    /\ View # <<>>

\* C16: a step other than reset_df (and fill_report, which calls it) leaves
\* a view that is the view before the step with rows taken out, the others
\* in the same order.
C16_ViewOnlyNarrows ==
    [][ ( /\ HasView
          /\ df_handler'.df # "None"
          /\ last'.op \notin {"reset_df", "fill_report"} )
        => IsSubsequence(View', View) ]_vars

\* reached: has_comments took rows out of a view narrower than original_df
\* and left some
C16_Witness ==
    /\ last.op = "has_comments"
    /\ Len(last.before) < Len(given)
    /\ Len(View) < Len(last.before)
    /\ View # <<>>

\* C17: col_lims keeps exactly the rows of the view whose value in the
\* column is defined and is >= the lower and < the upper bound, in their
\* order; so the view is empty when lower >= upper or when every value is
\* below the lower bound.
C17_ColLimsHalfOpen ==
    last.op = "col_lims" =>
        /\ IsSubsequence(View, last.before)
        /\ \A k \in 1..Len(last.before) :
               LET c == Cell(last.before[k], last.column)
               IN  last.before[k].index \in Labels(View) <=>
                       (c # <<>> /\ last.lo <= c[1] /\ c[1] < last.hi)
        /\ last.lo >= last.hi => View = <<>>
        /\ (\A k \in 1..Len(last.before) :
                LET c == Cell(last.before[k], last.column)
                IN  c # <<>> => c[1] < last.lo) => View = <<>>

\* reached: col_lims("glucose", 70, 190) on a view with the values 70, 190
\* and a missing one kept the first only
C17_Witness ==
    /\ last.op = "col_lims"
    /\ last.lo = 70
    /\ last.hi = 190
    /\ \E k \in 1..Len(last.before) : last.before[k].glucose = <<>>
    /\ \E k \in 1..Len(last.before) : last.before[k].glucose = <<190>>
    /\ Len(View) = 1
    /\ View[1].glucose = <<70>>

\* C18: last_x_days(x) with x <= 0 leaves an empty view.
C18_LastXDaysNonPositive ==
    (last.op = "last_x_days" /\ last.x <= 0) => View = <<>>

\* reached: last_x_days(0) on a view with two dated rows
C18_Witness ==
    /\ last.op = "last_x_days"
    /\ last.x = 0
    /\ \E a, b \in 1..Len(last.before) :
           /\ last.before[a].date # NaT
           /\ last.before[b].date # NaT
           /\ last.before[a].date < last.before[b].date
    /\ View = <<>>

\* C19: last_x_days(x) keeps exactly the rows of the view whose timestamp is
\* later than the latest timestamp of that view minus x days; for x > 0 the
\* kept timestamps are at most x days apart.
C19_LastXDaysOfView ==
    last.op = "last_x_days" =>
        /\ IsSubsequence(View, last.before)
        /\ \A k \in 1..Len(last.before) :
               last.before[k].index \in Labels(View) <=>
                   WithinLastDays(last.before[k], last.before, last.x)
        /\ last.x > 0 =>
               \A a, b \in 1..Len(View) :
                   View[b].date - View[a].date <= last.x * HoursPerDay

\* reached: last_x_days(5) on a view whose latest row is earlier than the
\* latest of original_df dropped the row exactly 5 days before the latest
C19_Witness ==
    /\ last.op = "last_x_days"
    /\ last.x = 5
    /\ MaxDate(last.before) # NaT
    /\ MaxDate(last.before) < MaxDate(given)
    /\ \E k \in 1..Len(last.before) :
           last.before[k].date = MaxDate(last.before) - 5 * HoursPerDay
    /\ Len(View) = 1

\* C20: the hba1c stored by save_hba1c and by fill_report is None exactly
\* when the rows it is computed on (the view within 90 days of its latest
\* timestamp) hold no glucose value; otherwise it is a quotient of the
\* readings with a positive denominator.
C20_Hba1cNoneWithoutGlucose ==
    last.op \in {"save_hba1c", "fill_report"} =>
        LET computed_on ==
                SelectSeq(last.before,
                          LAMBDA r : WithinLastDays(r, last.before, 90))
        IN  /\ "hba1c" \in DOMAIN report_as_dict
            /\ report_as_dict["hba1c"] = <<>> <=> NoGlucose(computed_on)
            /\ report_as_dict["hba1c"] # <<>> =>
                   report_as_dict["hba1c"][1].den > 0

\* reached: save_hba1c stored None for a view that is not empty but whose
\* rows of the last 90 days have no glucose, rows with glucose being older
C20_Witness ==
    /\ last.op = "save_hba1c"
    /\ report_as_dict["hba1c"] = <<>>
    /\ View # <<>>
    /\ ~NoGlucose(last.before)

---------------------------------------------------------------------------
(* Properties of the report creator *)

\* C21: save_tir(low, high) stores three counts over the defined glucose
\* values of the current view: below counts the values < low, in range the
\* values with low <= v < high, above the values >= high; a value equal to low
\* is in range and one equal to high is above.
C21_TirCounts ==
    last.op = "save_tir" =>
        LET Defined == {k \in 1..Len(View) : View[k].glucose # <<>>}
            G(k) == View[k].glucose[1]
        IN  /\ report_as_dict["time_below_range"] =
                   Cardinality({k \in Defined : G(k) < last.lo})
            /\ report_as_dict["time_in_range"] =
                   Cardinality({k \in Defined :
                                   last.lo <= G(k) /\ G(k) < last.hi})
            /\ report_as_dict["time_above_range"] =
                   Cardinality({k \in Defined : G(k) >= last.hi})

\* readings 70 and 190 with bounds (70, 180): below 0, in range 1, above 1
C21_Witness ==
    /\ last.op = "save_tir"
    /\ last.lo = 70
    /\ last.hi = 180
    /\ GlucoseDropna(View) = <<70, 190>>
    /\ \E k \in 1..Len(View) : View[k].glucose = <<>>
    /\ report_as_dict["time_below_range"] = 0
    /\ report_as_dict["time_in_range"] = 1
    /\ report_as_dict["time_above_range"] = 1

\* the defined glucose values of the rows dated at hour h
ReadingsAtHour(rows, h) ==
    {k \in 1..Len(rows) : /\ rows[k].glucose # <<>>
                          /\ rows[k].date # NaT
                          /\ rows[k].date % HoursPerDay = h}

\* the days the rows are dated at
DaysOf(rows) ==
    {rows[k].date \div HoursPerDay : k \in {m \in 1..Len(rows) :
                                              rows[m].date # NaT}}

\* C22: the glucose-by-hour series stored in the report has exactly 24
\* elements, one per hour 0..23 in order, and an hour without a defined
\* glucose reading in the view is present with mean and standard deviation
\* zero.
C22_SeriesHas24Hours ==
    last.op = "save_mean_glucose_by_hour" =>
        LET series == report_as_dict["glucose_by_hour_series"]
        IN  /\ Len(series.hour) = HoursPerDay
            /\ Len(series.mean_glucose) = HoursPerDay
            /\ Len(series.std_error) = HoursPerDay
            /\ \A h \in 0..(HoursPerDay - 1) :
                   /\ series.hour[h + 1] = h
                   /\ ReadingsAtHour(View, h) = {} =>
                          /\ IsZero(series.mean_glucose[h + 1])
                          /\ IsZero(series.std_error[h + 1])

\* C23: where a standard deviation is reported, a group of exactly one value
\* has an undefined standard deviation, not zero: the hour of the
\* glucose-by-hour series with one reading, and the daily fast insulin of a
\* view whose entries fall on one day.
C23_SingleValueStdUndefined ==
    /\ last.op = "save_mean_glucose_by_hour" =>
           LET series == report_as_dict["glucose_by_hour_series"]
           IN  \A k \in 1..Len(series.hour) :
                   Cardinality(ReadingsAtHour(View, series.hour[k])) = 1 =>
                       IsNaN(series.std_error[k])
    /\ last.op = "save_fast_insulin_use" =>
           (Cardinality(DaysOf(View)) = 1 =>
                IsNaN(report_as_dict["std_daily_fast_insulin"]))

\* C24: the table save_entries_df stores has one row per entry of the current
\* view, the entries latest first, none dropped or duplicated.
C24_EntriesLatestFirst ==
    last.op = "save_entries_df" =>
        /\ last.raised = NoExc
        /\ "entries_dataframe" \in DOMAIN report_as_dict
        /\ LET table == report_as_dict["entries_dataframe"].rows
               n == Len(View)
           IN  /\ Len(table) = n
               /\ \A k \in 1..n : table[k] = DisplayRow(View[n + 1 - k])
               /\ \A j, k \in 1..n :
                      j < k => View[n + 1 - j].date >= View[n + 1 - k].date

\* the keys fill_report stores
FillReportKeys ==
    {"hba1c", "time_in_range", "time_below_range", "time_above_range",
     "entry_count", "mean_daily_entry_count", "mean_daily_fast_insulin",
     "std_daily_fast_insulin", "glucose_by_hour_series",
     "time_above_range_by_hour", "time_below_range_by_hour",
     "time_in_range_by_hour", "entries_dataframe"}

\* the report is as fill_report left it
Filled(report) ==
    /\ DOMAIN report = FillReportKeys
    /\ report["entries_dataframe"].type = "DataFrame"

\* C25: after create_report of a renderer every key of a report filled by
\* fill_report holds the value it held before the call.
C25_RenderingOnlyReads ==
    (/\ last.op \in {"JSONReportCreator.create_report",
                     "PDFReportCreator.create_report"}
     /\ Filled(last.report))
        => report_as_dict = last.report

\* C26: ReportCreator.reset_df without day_count only removes the filters
\* (the view becomes the original rows, no error); with day_count the view
\* becomes the rows of the original within the last day_count days.
C26_ResetDfWithoutDayCount ==
    last.op = "ReportCreator.reset_df" =>
        /\ last.raised = NoExc
        /\ IF last.tags = <<>> THEN View = Original
           ELSE View = SelectSeq(Original,
                    LAMBDA r : WithinLastDays(r, Original, last.tags[1]))

---------------------------------------------------------------------------
(* Properties of the parser: progress and repeated sub-records *)

\* the line the parser is at: the cursor of the scan inside process_entry,
\* the cursor of process_lines outside
Cursor == IF pc = "process_entry" THEN si ELSE i

\* grows with every step: the cursor, and the return from a scan
Progress == 2 * Cursor + (IF pc = "process_lines" THEN 1 ELSE 0)

\* C27: process_lines terminates on every finite input: until the parse
\* returns or raises a step is always possible, every step moves forward (the
\* cursor never goes back and stays within the input, a step that handles a
\* line moves the cursor past that line by one), so every line is handled at
\* most once, either at top level or as a sub-record of one entry, the
\* nearest entry line before it with only sub-record lines in between.
C27_CursorOnlyAdvances ==
    /\ [](~Finished => ENABLED Next)
    /\ [][ \/ pc' \in {"returned", "raised"}
           \/ /\ Progress' > Progress
              /\ Cursor' >= Cursor
              /\ Cursor' <= NLines
              /\ \/ log' = log /\ Cursor' = Cursor
                 \/ /\ Len(log') = Len(log) + 1
                    /\ SubSeq(log', 1, Len(log)) = log
                    /\ log'[Len(log')].line = Cursor
                    /\ Cursor' = Cursor + 1
                    /\ \A k \in 1..Len(log) : log[k].line < Cursor
              /\ \A k \in 1..Len(log') :
                     log'[k].how = "sub" =>
                         LET e == log'[k].owner
                         IN  /\ e < log'[k].line
                             /\ LineAt(e).field = "entry"
                             /\ \A m \in (e + 1)..log'[k].line :
                                    LineAt(m).field \in SubRecordFields
         ]_vars

\* reached: a parse that returned after two entries with a sub-record each
C27_Witness ==
    /\ pc = "returned"
    /\ NLines = 4
    /\ Len(log) = 4
    /\ log[1].how = "entry" /\ log[2].how = "sub" /\ log[2].owner = 0
    /\ log[3].how = "entry" /\ log[4].how = "sub" /\ log[4].owner = 2
    /\ Len(entries) = 2

\* sub-record line k puts a value in the meal of its entry
IsMealLine(k) ==
    \/ csv_lines[k].field = "foodEaten"
    \/ csv_lines[k].field = "measurement" /\ csv_lines[k].values[1] = "meal"

\* the key of that value: the lowercased food, "carbs" for a manual meal
MealKey(k) ==
    IF csv_lines[k].field = "foodEaten" THEN Lower(csv_lines[k].values[1])
    ELSE "carbs"

\* the value: weight times the catalog value of the food, the carbs of a
\* manual meal
MealValue(k) ==
    IF csv_lines[k].field = "foodEaten"
    THEN FloatOf[csv_lines[k].values[2]] * foods[Lower(csv_lines[k].values[1])]
    ELSE FloatOf[csv_lines[k].values[2]] * 1000

\* C28: within the scan of one entry the last bloodsugar, insulin, activity,
\* hba1c and manual-meal line wins, a foodEaten line for a food already eaten
\* (by its lowercased name) overwrites the earlier one, so carbs is the sum
\* over the distinct meal keys of their last value; only the entryTag lines
\* accumulate, duplicates kept, in file order.
C28_LastSubRecordWins ==
    \A n \in 1..Len(entries) :
        LET subs == SubLinesOf(log[StartOfEntry(n)].line)
            meals == {k \in subs : IsMealLine(k)}
            last_meals == {k \in meals :
                              \A m \in meals : MealKey(m) = MealKey(k) => m <= k}
            last_lines == SortedSeq(last_meals)
            tag_lines == SortedSeq({k \in subs :
                                       csv_lines[k].field = "entryTag"})
            Field(k, j) == FloatOf[csv_lines[k].values[j]]
        IN  /\ \A k \in LastMeasurement(n, "bloodsugar") :
                   entries[n].glucose = <<IntOfFloat(Field(k, 2))>>
            /\ \A k \in LastMeasurement(n, "insulin") :
                   /\ entries[n].bolus_insulin = IntOfFloat(Field(k, 2))
                   /\ entries[n].correction_insulin = IntOfFloat(Field(k, 3))
                   /\ entries[n].basal_insulin = IntOfFloat(Field(k, 4))
            /\ \A k \in LastMeasurement(n, "activity") :
                   entries[n].activity = IntOfFloat(Field(k, 2))
            /\ \A k \in LastMeasurement(n, "hba1c") :
                   entries[n].hba1c = <<Field(k, 2)>>
            /\ DOMAIN entries[n].meal = {MealKey(k) : k \in meals}
            /\ \A k \in last_meals :
                   entries[n].meal[MealKey(k)] = MealValue(k)
            /\ entries[n].tags =
                   [j \in 1..Len(tag_lines) |-> csv_lines[tag_lines[j]].values[1]]
            /\ (pc = "returned" /\ Len(entries) = 1) =>
                   df.rows[1].carbs =
                       SumSeq([j \in 1..Len(last_lines) |->
                                  MealValue(last_lines[j])])

\* reached: an entry that ate the same food twice under two spellings, with
\* the same tag before and after: the meal holds the second value only, the
\* tag twice
C28_Witness ==
    /\ pc = "returned"
    /\ Len(entries) = 1
    /\ \E a, b, c, d \in SubLinesOf(log[StartOfEntry(1)].line) :
           /\ a < b /\ b < c /\ c < d
           /\ csv_lines[a].values = <<"Apple", "200">>
           /\ csv_lines[b].field = "entryTag"
           /\ csv_lines[c].values = <<"apple", "20">>
           /\ csv_lines[d].field = "entryTag"
    /\ entries[1].meal = ("apple" :> 200 * 140)
    /\ entries[1].tags = <<"tag1", "tag1">>
    /\ df.rows[1].carbs = 200 * 140

---------------------------------------------------------------------------
(* Properties of the filters: algebra *)

\* the calls of the predicate filters, by name and arguments
PredicateFilters ==
    {[NoOp EXCEPT !.op = "col_lims", !.column = a[1], !.lo = a[2], !.hi = a[3]] :
        a \in ColLimsArguments}
    \cup {[NoOp EXCEPT !.op = "has_tags", !.flag = b] : b \in BOOLEAN}
    \cup {[NoOp EXCEPT !.op = "tags_include", !.tags = t, !.flag = b] :
            t \in {<<"a">>, <<"a", "b">>}, b \in BOOLEAN}
    \cup {[NoOp EXCEPT !.op = "has_comments"]}
    \cup {[NoOp EXCEPT !.op = "date", !.tags = b] :
            b \in { <<"1990-01-01", "2100-01-01">>,
                    <<"2024-01-02", "2024-01-03">>,
                    <<"2024-01-03", "2024-01-02">> }}

\* the handler after the call f
Apply(f, hs) ==
    CASE f.op = "col_lims" -> ColLims(hs, f.column, f.lo, f.hi)
      [] f.op = "has_tags" -> HasTags(hs, f.flag)
      [] f.op = "tags_include" -> TagsInclude(hs, f.tags, f.flag)
      [] f.op = "has_comments" -> HasComments(hs)
      [] f.op = "date" -> Date(hs, f.tags[1], f.tags[2])

\* last_x_days(x) and the filter f in the two orders leave different views
LastXDaysDoesNotCommute(hs, f, x) ==
    ViewRows(LastXDays(Apply(f, hs), x)) # ViewRows(Apply(f, LastXDays(hs, x)))

\* C29: on every view, two predicate filters (col_lims, has_tags,
\* tags_include, has_comments, date) applied in either order leave the same
\* handler, a predicate filter applied twice leaves what it leaves applied
\* once, and so does last_x_days for x > 0.
C29_FiltersCommute ==
    HasView =>
        /\ \A f, g \in PredicateFilters :
               Apply(f, Apply(g, Handler)) = Apply(g, Apply(f, Handler))
        /\ \A f \in PredicateFilters :
               Apply(f, Apply(f, Handler)) = Apply(f, Handler)
        /\ \A x \in {1, 5, 90} :
               LastXDays(LastXDays(Handler, x), x) = LastXDays(Handler, x)

\* reached: a view narrowed by one predicate filter after another, neither
\* alone leaving it, on which last_x_days and a predicate filter do not
\* commute
C29_Witness ==
    /\ HasView
    /\ last.op \in {"col_lims", "has_tags", "tags_include", "has_comments",
                    "date"}
    /\ Len(View) >= 1
    /\ Len(View) < Len(last.before)
    /\ Len(last.before) < Len(Original)
    /\ \E f \in PredicateFilters, g \in PredicateFilters :
           /\ f.op # g.op
           /\ View = ViewRows(Apply(f, Apply(g, ResetDf(Handler))))
           /\ View # ViewRows(Apply(f, ResetDf(Handler)))
           /\ View # ViewRows(Apply(g, ResetDf(Handler)))
    /\ \E f \in PredicateFilters, x \in {1, 5, 90} :
           LastXDaysDoesNotCommute(ResetDf(Handler), f, x)

---------------------------------------------------------------------------
(* Properties of fill_report *)

\* C30: every value fill_report stores depends on the original rows of the
\* handler only, not on the filters applied to the view before the call: the
\* report is the one fill_report stores for a handler with the same original
\* rows and no filter, with hba1c taken over the last 90 days of the original.
C30_ReportOfOriginalOnly ==
    last.op = "fill_report" =>
        /\ report_as_dict = FillReport(NewReport, HandlerInit(Original))
        /\ report_as_dict["hba1c"] =
               Hba1c(GlucoseDropna(SelectSeq(Original,
                   LAMBDA r : WithinLastDays(r, Original, 90))))

===========================================================================
